---- MODULE Spec2Model ----
(***************************************************************************)
(* PyPAC: the PAC archive index engine.                                    *)
(*                                                                         *)
(*   DPAC/PACIO.py   class PACIO : merge several PAC files, Search a       *)
(*                   virtual path, ExtractRootTOC, WriteArc                *)
(*   DPAC/import.py  class Import: one PAC file, get_file, write_arc       *)
(*                                                                         *)
(* TOC buffers are modelled byte for byte (sequences of 0..255) with the   *)
(* BytesIO cursor as a 0-based offset.  A DATA buffer is modelled by its   *)
(* identity, its length and its cursor; a byte string read from it is the  *)
(* slice [src, lo, hi) that BytesIO.read returns (clipped at the end of    *)
(* the buffer), so two results are equal when they are the same slice of   *)
(* the same source's data region.                                          *)
(***************************************************************************)
EXTENDS Integers, Sequences, FiniteSets, TLC

\* ------------------------------------------------------------------ bounds

\* most folder records over all the sources of one index
MaxFolders == 2
\* most PAC files handed to one constructor call
MaxSources == 2
\* most operations called on one constructed object
MaxCalls == 2
\* sectors in every source's DATA region
DataSectors == 3
\* most bytes missing from the end of the last source's TOC region
MaxCut == 12
\* longest entry table, in bytes, written out in full behind a folder header
\* drawn from 0..255 x 0..255
MaxTable == 24

\* --------------------------------------------------------- program constants

SECTOR_SIZE == 2048

TOC_TERMINATOR == <<255, 255, 255, 255>>

\* ------------------------------------------------------------ byte helpers

Min(a, b) == IF a < b THEN a ELSE b

RECURSIVE BitAnd(_, _)
BitAnd(a, b) ==
    IF a = 0 \/ b = 0 THEN 0
    ELSE (a % 2) * (b % 2) + 2 * BitAnd(a \div 2, b \div 2)

RECURSIVE BitOr(_, _)
BitOr(a, b) ==
    IF a = 0 THEN b
    ELSE IF b = 0 THEN a
    ELSE (IF a % 2 = 1 \/ b % 2 = 1 THEN 1 ELSE 0) + 2 * BitOr(a \div 2, b \div 2)

\* x << n
RECURSIVE Shl(_, _)
Shl(x, n) == IF n = 0 THEN x ELSE Shl(2 * x, n - 1)

\* BytesIO.read(n) at offset pos: the bytes that are there, at most n
ReadN(buf, pos, n) == SubSeq(buf, pos + 1, Min(pos + n, Len(buf)))

\* int.from_bytes(b, "big") and int.from_bytes(b, "little"); a short read gives
\* a shorter b, and the empty string gives 0
RECURSIVE FromBytesBig(_)
FromBytesBig(b) ==
    IF b = <<>> THEN 0
    ELSE 256 * FromBytesBig(SubSeq(b, 1, Len(b) - 1)) + b[Len(b)]

RECURSIVE FromBytesLittle(_)
FromBytesLittle(b) ==
    IF b = <<>> THEN 0
    ELSE b[1] + 256 * FromBytesLittle(Tail(b))

\* str(n) for n >= 0, as character codes
RECURSIVE Str(_)
Str(n) == IF n < 10 THEN <<48 + n>> ELSE Str(n \div 10) \o <<48 + (n % 10)>>

RECURSIVE Fill(_, _)
Fill(c, n) == IF n <= 0 THEN <<>> ELSE <<c>> \o Fill(c, n - 1)

\* s.ljust(w) and s.rjust(w, "0")
LJust(s, w) == s \o Fill(32, w - Len(s))

RJustZero(s, w) == Fill(48, w - Len(s)) \o s

\* the characters str.rstrip() removes (latin1 code points)
Whitespace == {9, 10, 11, 12, 13, 28, 29, 30, 31, 32, 133, 160}

RECURSIVE RStrip(_)
RStrip(s) ==
    IF s # <<>> /\ s[Len(s)] \in Whitespace THEN RStrip(SubSeq(s, 1, Len(s) - 1))
    ELSE s

\* path.strip("/")
RECURSIVE StripSlash(_)
StripSlash(s) ==
    IF s # <<>> /\ s[1] = 47 THEN StripSlash(Tail(s))
    ELSE IF s # <<>> /\ s[Len(s)] = 47 THEN StripSlash(SubSeq(s, 1, Len(s) - 1))
    ELSE s

\* s.split("/", 1): one or two parts
SplitOnce(s) ==
    IF \E i \in 1..Len(s) : s[i] = 47
    THEN LET i == CHOOSE k \in 1..Len(s) : s[k] = 47 /\ \A j \in 1..(k - 1) : s[j] # 47
         IN  <<SubSeq(s, 1, i - 1), SubSeq(s, i + 1, Len(s))>>
    ELSE <<s>>

\* (tell + SECTOR_SIZE - 1) & ~(SECTOR_SIZE - 1): the mask clears the low bits
AlignUp(pos) ==
    LET y == pos + SECTOR_SIZE - 1
    IN  y - BitAnd(y, SECTOR_SIZE - 1)

\* ----------------------------------------------------------- the PAC format
\* The records of a TOC region, as PACIO reads them back:
\*   folder   [4 bytes name][u8 fileCountField][u8 flag][u16 baseAddress LE]
\*   normal   [4 bytes name][u16 sectorOffset LE][u16 size LE]
\*   extended [u16 id BE][u16 size LE]

U16LE(x) == <<x % 256, x \div 256>>

U16BE(x) == <<x \div 256, x % 256>>

RECURSIVE Concat(_)
Concat(ss) == IF ss = <<>> THEN <<>> ELSE Head(ss) \o Concat(Tail(ss))

EncodeEntry(f, e) ==
    IF f.ext THEN U16BE(e.id) \o U16LE(e.size)
    ELSE e.name \o U16LE(e.addr) \o U16LE(e.size)

\* a folder record followed by its entry table: an extended folder stores three
\* words per file in its count field, a normal folder two words per file in the
\* 12-bit field made of the count byte and the low bits of the flag byte
EncodeFolder(f) ==
    LET n     == Len(f.entries)
        words == IF f.ext THEN 3 * n ELSE 2 * n
        flag  == IF f.ext THEN 128 ELSE words \div 256
    IN  f.name \o <<words % 256, flag>> \o U16LE(f.base)
        \o Concat([i \in 1..n |-> EncodeEntry(f, f.entries[i])])

EncodeToc(fs) == Concat([i \in 1..Len(fs) |-> EncodeFolder(fs[i])])

\* names used by the archives and the paths of the model (character codes)
MOT  == <<77, 79, 84>>
EMD  == <<69, 77, 68>>
NONE == <<78, 79, 78, 69>>
GAME == <<71, 65, 77, 69>>
DALL == <<68, 65, 76, 76>>

\* the folders the archives of the model are made of
Catalogue ==
    << [name |-> LJust(MOT, 4), ext |-> FALSE, base |-> 0,
        entries |-> << [name |-> GAME, addr |-> 1, size |-> 100],
                       [name |-> DALL, addr |-> 2, size |-> 3000] >>],
       [name |-> LJust(EMD, 4), ext |-> TRUE, base |-> 1,
        entries |-> << [id |-> 1, size |-> 50], [id |-> 2, size |-> 80],
                       [id |-> 1234, size |-> 300] >>] >>

\* "/FOLDER/FILE"
Path(folder, file) == <<47>> \o folder \o <<47>> \o file

\* the paths Search and get_file are called with
Paths ==
    { Path(MOT, GAME), Path(MOT, DALL), Path(MOT, Str(1)),
      Path(EMD, RJustZero(Str(1), 4)), Path(EMD, Str(1)), Path(EMD, Str(2)),
      Path(EMD, Str(1234)), Path(EMD, GAME), Path(NONE, GAME) }

\* ------------------------------------------------------------ PACIO.__init__

\* variant: every marker carries index 0
MarkerZero(pac_index) == <<255, 0, 255, 255>>

\* pack("BBBB", 0xFF, pac_index, 0xFF, 0xFF)
Marker(pac_index) == <<255, pac_index, 255, 255>>

\* _read_single_pac: (marker + toc_bytes, data_bytes) of one PAC file
read_single_pac(pac, pac_index) ==
    [toc |-> Marker(pac_index) \o pac.toc, data |-> [id |-> pac.id, len |-> pac.datalen]]

\* variant: the terminator chunk is not appended
PACIO_NoTerminator(pac_paths) ==
    LET chunks == [i \in 1..Len(pac_paths) |-> read_single_pac(pac_paths[i], i - 1)]
    IN  [buffer |-> Concat([i \in 1..Len(chunks) |-> chunks[i].toc]),
         data   |-> [i \in 1..Len(chunks) |-> chunks[i].data]]

\* __init__: the merged TOC in self.buffer, the DATA payloads in self.data
\* (enumerate counts from 0; sequences here from 1)
PACIO(pac_paths) ==
    LET chunks == [i \in 1..Len(pac_paths) |-> read_single_pac(pac_paths[i], i - 1)]
    IN  [buffer |-> Concat([i \in 1..Len(chunks) |-> chunks[i].toc]) \o TOC_TERMINATOR,
         data   |-> [i \in 1..Len(chunks) |-> chunks[i].data]]

\* every BytesIO of a new object stands at offset 0
FreshCursors(idx) == [i \in 1..Len(idx.data) |-> 0]

\* ------------------------------------------------------------ BytesIO (DATA)

NoBytes == [src |-> 0, lo |-> 0, hi |-> 0]

\* data.read(size) with the cursor at pos: the slice, clipped at the end
DataRead(d, pos, size) ==
    IF pos >= d.len \/ size = 0 THEN NoBytes
    ELSE [src |-> d.id, lo |-> pos, hi |-> Min(pos + size, d.len)]

\* the cursor after data.read(size)
DataTell(d, pos, size) == IF pos >= d.len THEN pos ELSE Min(pos + size, d.len)

\* what an operation leaves: its result (kind: "bytes", "None" or the exception
\* raised), the TOC cursor, the DATA cursors, and the loop iterations it ran
Outcome(kind, bytes, pos, dpos, steps) ==
    [kind |-> kind, src |-> bytes.src, lo |-> bytes.lo, hi |-> bytes.hi,
     pos |-> pos, dpos |-> dpos, steps |-> steps]

\* ------------------------------------------------------------- PACIO.Search

\* variant: every table skipped as 8-byte entries
skip_directory_entries_Width8(filecount, flag) ==
    IF flag = 128 THEN (filecount \div 3) * 8
    ELSE (BitAnd(BitOr(filecount, Shl(flag, 8)), 4095) \div 2) * 8

\* variant: (filecount | flag) << 8 in place of filecount | (flag << 8)
skip_directory_entries_Shift(filecount, flag) ==
    IF flag = 128 THEN (filecount \div 3) * 4
    ELSE (BitAnd(Shl(BitOr(filecount, flag), 8), 4095) \div 2) * 8

\* _skip_directory_entries: the distance of its relative seek, n_files * entry_len
skip_directory_entries(filecount, flag) ==
    IF flag = 128 THEN (filecount \div 3) * 4
    ELSE (BitAnd(BitOr(filecount, Shl(flag, 8)), 4095) \div 2) * 8

\* _extract_from_folder: the entries its loop runs over, range(filecount // 3)
\* or range(((filecount | flag << 8) & 0x0FFF) // 2)
ExtractFileCount(filecount, flag) ==
    IF flag = 128 THEN filecount \div 3
    ELSE BitAnd(BitOr(filecount, Shl(flag, 8)), 4095) \div 2

\* str(file_id).ljust(4), the name Search compares an extended entry under
SearchEntryName(file_id) == LJust(Str(file_id), 4)

\* variant: the sector number used as a byte offset
NormalAddress_NoShift(addr) == addr

\* the offset a matched normal entry is read from: data.seek(addr << 11)
NormalAddress(addr) == Shl(addr, 11)

\* Once the TOC cursor stands at the end of the buffer every read returns b"",
\* so each remaining iteration of an entry loop decodes the same entry (id 0 or
\* name "", size 0) and repeats the same idempotent effect: the loops below run
\* one such iteration for the m that remain and count the others in steps.
Remaining(idx, pos, m, repeats) ==
    IF pos >= Len(idx.buffer) /\ repeats /\ m > 1 THEN 1 ELSE m

\* _extract_from_folder, extended table: n entries left, TOC cursor at pos.  The
\* entries are read from wherever the DATA cursor stands: baseaddr is shifted
\* and then never used.
RECURSIVE ExtractExtended(_, _, _, _, _, _, _)
ExtractExtended(idx, pos, filename, n, cur, dpos, steps) ==
    IF n = 0 THEN Outcome("None", NoBytes, pos, dpos, steps)
    ELSE
      LET idb     == ReadN(idx.buffer, pos, 2)
          p1      == pos + Len(idb)
          szb     == ReadN(idx.buffer, p1, 2)
          p2      == p1 + Len(szb)
          file_id == FromBytesBig(idb)
          size    == FromBytesLittle(szb)
      IN  IF SearchEntryName(file_id) # filename
          THEN LET m == Remaining(idx, p2, n - 1, SearchEntryName(0) # filename)
               IN  ExtractExtended(idx, p2, filename, m, cur,
                                   [dpos EXCEPT ![cur] = AlignUp(@ + size)],
                                   steps + n - m)
          ELSE Outcome("bytes", DataRead(idx.data[cur], dpos[cur], size), p2,
                       [dpos EXCEPT ![cur] = DataTell(idx.data[cur], @, size)],
                       steps + 1)

\* _extract_from_folder, normal table
RECURSIVE ExtractNormal(_, _, _, _, _, _, _)
ExtractNormal(idx, pos, filename, n, cur, dpos, steps) ==
    IF n = 0 THEN Outcome("None", NoBytes, pos, dpos, steps)
    ELSE
      LET fname == ReadN(idx.buffer, pos, 4)
          p1    == pos + Len(fname)
          ab    == ReadN(idx.buffer, p1, 2)
          p2    == p1 + Len(ab)
          szb   == ReadN(idx.buffer, p2, 2)
          p3    == p2 + Len(szb)
          addr  == FromBytesLittle(ab)
          size  == FromBytesLittle(szb)
      IN  IF fname # filename
          THEN LET m == Remaining(idx, p3, n - 1, <<>> # filename)
               IN  ExtractNormal(idx, p3, filename, m, cur, dpos, steps + n - m)
          ELSE Outcome("bytes", DataRead(idx.data[cur], NormalAddress(addr), size), p3,
                       [dpos EXCEPT ![cur] =
                           DataTell(idx.data[cur], NormalAddress(addr), size)],
                       steps + 1)

\* _extract_from_folder; cur = 0 is data is None
extract_from_folder(idx, pos, filename, filecount, flag, baseaddr, cur, dpos, steps) ==
    IF cur = 0 THEN Outcome("RuntimeError", NoBytes, pos, dpos, steps)
    ELSE IF flag = 128
    THEN ExtractExtended(idx, pos, filename, ExtractFileCount(filecount, flag), cur, dpos,
                         steps)
    ELSE ExtractNormal(idx, pos, filename, ExtractFileCount(filecount, flag), cur, dpos,
                       steps)

\* the while loop of Search, TOC cursor at pos, current_data = data[cur]
RECURSIVE SearchLoop(_, _, _, _, _, _, _)
SearchLoop(idx, pos, folder, filename, cur, dpos, steps) ==
    LET chunk == ReadN(idx.buffer, pos, 4)
        p1    == pos + Len(chunk)
    IN  IF Len(chunk) < 4 THEN Outcome("EOFError", NoBytes, p1, dpos, steps + 1)
        ELSE IF chunk = TOC_TERMINATOR THEN Outcome("None", NoBytes, p1, dpos, steps + 1)
        ELSE IF chunk[1] = 255 /\ chunk[3] = 255 /\ chunk[4] = 255
        THEN IF chunk[2] + 1 > Len(idx.data)
             THEN Outcome("IndexError", NoBytes, p1, dpos, steps + 1)
             ELSE SearchLoop(idx, p1, folder, filename, chunk[2] + 1, dpos, steps + 1)
        ELSE
          LET hdr == ReadN(idx.buffer, p1, 4)
              p2  == p1 + Len(hdr)
          IN  \* unpack("2BH", ...) of fewer than 4 bytes
              IF Len(hdr) < 4 THEN Outcome("struct.error", NoBytes, p2, dpos, steps + 1)
              ELSE IF chunk = folder
              THEN extract_from_folder(idx, p2, filename, hdr[1], hdr[2],
                                       FromBytesLittle(SubSeq(hdr, 3, 4)), cur, dpos,
                                       steps + 1)
              ELSE SearchLoop(idx, p2 + skip_directory_entries(hdr[1], hdr[2]), folder,
                              filename, cur, dpos, steps + 1)

\* Search(path) on the object idx whose DATA cursors stand at dpos
\* (bpos is the TOC cursor the call finds; the scan starts from buffer.seek(0))
Search(idx, bpos, dpos, path) ==
    LET parts == SplitOnce(StripSlash(path))
    IN  IF Len(parts) # 2 THEN Outcome("ValueError", NoBytes, bpos, dpos, 0)
        ELSE SearchLoop(idx, 0, LJust(parts[1], 4), LJust(parts[2], 4), 0, dpos, 0)

\* ----------------------------------------------------- PACIO.ExtractRootTOC

\* ExtractRootTOC: the entries its loops run over
RootFileCount(filecount, flag) ==
    IF flag = 128 THEN filecount \div 3
    ELSE BitAnd(BitOr(filecount, Shl(flag, 8)), 4095) \div 2

\* str(file_id).rjust(4, "0"), the name bulk extraction writes an extended entry
\* under
ExtractEntryName(file_id) == RJustZero(Str(file_id), 4)

\* open(os.path.join(folder_path, name), "wb").write(bytes): the file is
\* created or overwritten
WriteFile(disk, folder, name, bytes) ==
    {f \in disk : ~(f.folder = folder /\ f.name = name)}
    \cup {[folder |-> folder, name |-> name,
           src |-> bytes.src, lo |-> bytes.lo, hi |-> bytes.hi]}

\* the extended loop of one folder: [pos, dpos, disk] after n entries
RECURSIVE RootExtended(_, _, _, _, _, _, _)
RootExtended(idx, pos, folder, n, cur, dpos, disk) ==
    IF n = 0 THEN [err |-> FALSE, pos |-> pos, dpos |-> dpos, disk |-> disk]
    ELSE
      LET idb     == ReadN(idx.buffer, pos, 2)
          p1      == pos + Len(idb)
          szb     == ReadN(idx.buffer, p1, 2)
          p2      == p1 + Len(szb)
          file_id == FromBytesBig(idb)
          size    == FromBytesLittle(szb)
          d       == idx.data[cur]
      IN  RootExtended(idx, p2, folder, Remaining(idx, p2, n - 1, TRUE), cur,
                       [dpos EXCEPT ![cur] = AlignUp(DataTell(d, @, size))],
                       WriteFile(disk, folder, ExtractEntryName(file_id),
                                 DataRead(d, dpos[cur], size)))

\* the normal loop of one folder
RECURSIVE RootNormal(_, _, _, _, _, _, _)
RootNormal(idx, pos, folder, n, cur, dpos, disk) ==
    IF n = 0 THEN [err |-> FALSE, pos |-> pos, dpos |-> dpos, disk |-> disk]
    ELSE
      LET nb    == ReadN(idx.buffer, pos, 4)
          p1    == pos + Len(nb)
          ab    == ReadN(idx.buffer, p1, 2)
          p2    == p1 + Len(ab)
          szb   == ReadN(idx.buffer, p2, 2)
          p3    == p2 + Len(szb)
          addr  == Shl(FromBytesLittle(ab), 11)
          size  == FromBytesLittle(szb)
          d     == idx.data[cur]
      IN  \* open() of the folder itself, when the name strips to nothing
          IF RStrip(nb) = <<>>
          THEN [err |-> TRUE, pos |-> p3, disk |-> disk,
                dpos |-> [dpos EXCEPT ![cur] = DataTell(d, addr, size)]]
          ELSE RootNormal(idx, p3, folder, n - 1, cur,
                          [dpos EXCEPT ![cur] = DataTell(d, addr, size)],
                          WriteFile(disk, folder, RStrip(nb), DataRead(d, addr, size)))

\* the while loop of ExtractRootTOC: the outcome and the files on disk
RECURSIVE RootLoop(_, _, _, _, _, _)
RootLoop(idx, pos, cur, dpos, disk, steps) ==
    LET chunk == ReadN(idx.buffer, pos, 4)
        p1    == pos + Len(chunk)
        Stop(kind, p) == [out |-> Outcome(kind, NoBytes, p, dpos, steps + 1), disk |-> disk]
    IN  IF Len(chunk) < 4 THEN Stop("EOFError", p1)
        ELSE IF chunk = TOC_TERMINATOR THEN Stop("None", p1)
        ELSE IF chunk[1] = 255 /\ chunk[3] = 255 /\ chunk[4] = 255
        THEN IF chunk[2] + 1 > Len(idx.data) THEN Stop("IndexError", p1)
             ELSE RootLoop(idx, p1, chunk[2] + 1, dpos, disk, steps + 1)
        ELSE
          LET hdr == ReadN(idx.buffer, p1, 4)
              p2  == p1 + Len(hdr)
          IN  IF Len(hdr) < 4 THEN Stop("struct.error", p2)
              ELSE IF cur = 0 THEN Stop("RuntimeError", p2)
              ELSE
                LET r == IF hdr[2] = 128
                         THEN RootExtended(idx, p2, RStrip(chunk),
                                           RootFileCount(hdr[1], hdr[2]), cur, dpos, disk)
                         ELSE RootNormal(idx, p2, RStrip(chunk),
                                         RootFileCount(hdr[1], hdr[2]), cur, dpos, disk)
                IN  IF r.err
                    THEN [out |-> Outcome("OSError", NoBytes, r.pos, r.dpos, steps + 1),
                          disk |-> r.disk]
                    ELSE RootLoop(idx, r.pos, cur, r.dpos, r.disk, steps + 1)

ExtractRootTOC(idx, dpos, disk) == RootLoop(idx, 0, 0, dpos, disk, 0)

\* The folder records one pass of the scan loop meets when no folder matches:
\* <<index of the active DATA buffer, folder name>> for each, in order, and how
\* the pass ends.
RECURSIVE FolderWalk(_, _, _, _)
FolderWalk(idx, pos, cur, seen) ==
    LET chunk == ReadN(idx.buffer, pos, 4)
        p1    == pos + Len(chunk)
        hdr   == ReadN(idx.buffer, p1, 4)
    IN  IF Len(chunk) < 4 THEN [kind |-> "EOFError", seen |-> seen]
        ELSE IF chunk = TOC_TERMINATOR THEN [kind |-> "None", seen |-> seen]
        ELSE IF chunk[1] = 255 /\ chunk[3] = 255 /\ chunk[4] = 255
        THEN IF chunk[2] + 1 > Len(idx.data) THEN [kind |-> "IndexError", seen |-> seen]
             ELSE FolderWalk(idx, p1, chunk[2] + 1, seen)
        ELSE IF Len(hdr) < 4 THEN [kind |-> "struct.error", seen |-> seen]
        ELSE FolderWalk(idx, p1 + 4 + skip_directory_entries(hdr[1], hdr[2]), cur,
                        Append(seen, <<cur - 1, chunk>>))

\* ------------------------------------------------------------ import.Import

\* path.upper()
Upper(s) == [i \in 1..Len(s) |-> IF s[i] >= 97 /\ s[i] <= 122 THEN s[i] - 32 ELSE s[i]]

\* s.split("/")
RECURSIVE SplitAll(_)
SplitAll(s) ==
    LET parts == SplitOnce(s)
    IN  IF Len(parts) = 1 THEN parts ELSE <<parts[1]>> \o SplitAll(parts[2])

\* hex(n)[2:], lower-case digits
RECURSIVE Hex(_)
Hex(n) ==
    LET d == n % 16
        c == IF d < 10 THEN 48 + d ELSE 87 + d
    IN  IF n < 16 THEN <<c>> ELSE Hex(n \div 16) \o <<c>>

\* bytes.decode("ascii") raises on a byte above 127
IsAscii(b) == \A i \in 1..Len(b) : b[i] < 128

\* Import.__init__ (mode PS2): the TOC and DATA regions of one PAC file
Import(pac) ==
    [toc |-> pac.toc, tocpos |-> 0,
     data |-> [id |-> pac.id, len |-> pac.datalen], datapos |-> 0]

\* the object of a model run that constructs no Import
NoImport == [toc |-> <<>>, tocpos |-> 0, data |-> [id |-> 0, len |-> 0], datapos |-> 0]

\* get_file leaves an Outcome whose dpos is the cursor of the one DATA buffer.
\* The extended loop of the matching folder: every entry is read from
\* basesector, the match returns after data.seek(0)
RECURSIVE GetExtended(_, _, _, _, _, _, _)
GetExtended(im, pos, file, n, basesector, dpos, steps) ==
    IF n = 0 THEN [done |-> FALSE, out |-> Outcome("None", NoBytes, pos, dpos, steps)]
    ELSE
      LET idb  == ReadN(im.toc, pos, 2)
          p1   == pos + Len(idb)
          szb  == ReadN(im.toc, p1, 2)
          p2   == p1 + Len(szb)
          size == FromBytesLittle(szb)
          at   == basesector * 2048
      IN  IF Len(idb) < 2
          THEN [done |-> TRUE, out |-> Outcome("struct.error", NoBytes, p1, dpos, steps + 1)]
          ELSE IF Len(szb) < 2
          THEN [done |-> TRUE, out |-> Outcome("struct.error", NoBytes, p2, dpos, steps + 1)]
          ELSE IF RJustZero(Hex(FromBytesLittle(idb)), 4) = file
          THEN [done |-> TRUE,
                out |-> Outcome("bytes", DataRead(im.data, at, size), p2, 0, steps + 1)]
          ELSE GetExtended(im, p2, file, n - 1, basesector,
                           DataTell(im.data, at, size), steps + 1)

\* the normal loop of the matching folder: unpack("<4sHH", toc.read(8))
RECURSIVE GetNormal(_, _, _, _, _, _)
GetNormal(im, pos, file, n, dpos, steps) ==
    IF n = 0 THEN [done |-> FALSE, out |-> Outcome("None", NoBytes, pos, dpos, steps)]
    ELSE
      LET rec    == ReadN(im.toc, pos, 8)
          p1     == pos + Len(rec)
          sector == FromBytesLittle(SubSeq(rec, 5, 6))
          size   == FromBytesLittle(SubSeq(rec, 7, 8))
      IN  IF Len(rec) < 8
          THEN [done |-> TRUE, out |-> Outcome("struct.error", NoBytes, p1, dpos, steps + 1)]
          ELSE IF ~IsAscii(SubSeq(rec, 1, 4))
          THEN [done |-> TRUE,
                out |-> Outcome("UnicodeDecodeError", NoBytes, p1, dpos, steps + 1)]
          ELSE IF SubSeq(rec, 1, 4) = file
          THEN [done |-> TRUE,
                out |-> Outcome("bytes", DataRead(im.data, sector * 2048, size), p1,
                                DataTell(im.data, sector * 2048, size), steps + 1)]
          ELSE GetNormal(im, p1, file, n - 1, dpos, steps + 1)

\* the while loop of get_file: it goes on from wherever self.toc stands
RECURSIVE GetLoop(_, _, _, _, _, _)
GetLoop(im, pos, folder, file, dpos, steps) ==
    IF pos >= Len(im.toc) THEN Outcome("None", NoBytes, pos, dpos, steps)
    ELSE
      LET nb  == ReadN(im.toc, pos, 4)
          p1  == pos + Len(nb)
          fcb == ReadN(im.toc, p1, 2)
          p2  == p1 + Len(fcb)
          bsb == ReadN(im.toc, p2, 2)
          p3  == p2 + Len(bsb)
          fieldcount == FromBytesLittle(fcb)
          basesector == FromBytesLittle(bsb)
          extended   == BitAnd(fieldcount, 32768) = 32768
      IN  IF Len(nb) < 4 THEN Outcome("struct.error", NoBytes, p1, dpos, steps + 1)
          ELSE IF ~IsAscii(nb) THEN Outcome("UnicodeDecodeError", NoBytes, p1, dpos, steps + 1)
          ELSE IF Len(fcb) < 2 THEN Outcome("struct.error", NoBytes, p2, dpos, steps + 1)
          ELSE IF Len(bsb) < 2 THEN Outcome("struct.error", NoBytes, p3, dpos, steps + 1)
          ELSE IF nb = folder
          THEN LET r == IF extended
                        THEN GetExtended(im, p3, file, BitAnd(fieldcount, 4095) \div 3,
                                         basesector, dpos, steps + 1)
                        ELSE GetNormal(im, p3, file, fieldcount \div 3, dpos, steps + 1)
               IN  IF r.done THEN r.out
                   ELSE GetLoop(im, r.out.pos, folder, file, r.out.dpos, r.out.steps)
          ELSE GetLoop(im,
                       p3 + (IF extended THEN 4 ELSE 8) * (BitAnd(fieldcount, 4095) \div 3),
                       folder, file, dpos, steps + 1)

\* get_file(path) on the object im
get_file(im, path) ==
    LET parts == SplitAll(Upper(path))
    IN  IF Len(parts) < 3 THEN Outcome("IndexError", NoBytes, im.tocpos, im.datapos, 0)
        ELSE IF Len(parts[2]) + Len(parts[3]) > 8
        THEN Outcome("ValueError", NoBytes, im.tocpos, im.datapos, 0)
        ELSE GetLoop(im, im.tocpos, LJust(parts[2], 4), LJust(parts[3], 4), im.datapos, 0)

\* write_arc: the bytes written to the output file
RECURSIVE ArcFragments(_, _)
ArcFragments(tocs, f) ==
    IF tocs = <<>> THEN <<>>
    ELSE <<255, 255>> \o U16LE(f) \o Head(tocs) \o ArcFragments(Tail(tocs), f + 1)

write_arc(im, additional_tocs) ==
    <<255, 0, 0, 0>> \o im.toc \o ArcFragments(additional_tocs, 1) \o <<255, 255, 255, 255>>

\* ------------------------------------------------------------------- state

VARIABLES
    pacs,      \* the PAC files the object was constructed from, in order
    buffer,    \* PACIO.buffer: the merged TOC
    bufpos,    \* the cursor of PACIO.buffer
    data,      \* PACIO.data: one DATA buffer per PAC file
    datapos,   \* the cursor of each DATA buffer
    imp,       \* the Import object: [toc, tocpos, data, datapos]
    disk,      \* the files ExtractRootTOC has written
    arc,       \* the file WriteArc / write_arc has written
    last,      \* the last call: [op, path]
    result,    \* what the last call returned or raised
    calls      \* calls made so far

vars == <<pacs, buffer, bufpos, data, datapos, imp, disk, arc, last, result, calls>>

Self == [buffer |-> buffer, data |-> data]

Result(o) == [kind |-> o.kind, src |-> o.src, lo |-> o.lo, hi |-> o.hi, steps |-> o.steps]

NoResult == [kind |-> "None", src |-> 0, lo |-> 0, hi |-> 0, steps |-> 0]

\* ------------------------------------------------------------------ inputs

DataLen == DataSectors * SECTOR_SIZE

\* sequences of at most MaxFolders folders of the catalogue
FolderSeqs == UNION { [1..n -> 1..Len(Catalogue)] : n \in 0..MaxFolders }

\* the ways to deal the folders of s out to n sources, in order
Deals(s, n) ==
    {a \in [1..Len(s) -> 1..n] : \A i, j \in 1..Len(s) : i <= j => a[i] <= a[j]}

RECURSIVE Dealt(_, _, _, _)
Dealt(s, a, i, j) ==
    IF j > Len(s) THEN <<>>
    ELSE (IF a[j] = i THEN <<Catalogue[s[j]]>> ELSE <<>>) \o Dealt(s, a, i, j + 1)

\* PAC file i: its folders, its TOC region with the last cut bytes missing, and
\* its DATA region
PacFile(i, folders, cut) ==
    LET toc == EncodeToc(folders)
    IN  [id |-> i, folders |-> folders, cut |-> cut,
         toc |-> SubSeq(toc, 1, Len(toc) - cut), datalen |-> DataLen]

\* the state after PACIO(*files), beside the Import object im
Constructed(files, im) ==
    LET idx == PACIO(files)
    IN  /\ pacs = files
        /\ imp = im
        /\ buffer = idx.buffer
        /\ bufpos = 0
        /\ data = idx.data
        /\ datapos = FreshCursors(idx)
        /\ disk = {}
        /\ arc = <<>>
        /\ last = [op |-> "init", path |-> <<>>]
        /\ result = NoResult
        /\ calls = 0

\* archives with well-formed TOC regions
Init ==
    \E n \in 0..MaxSources : \E s \in FolderSeqs : \E a \in Deals(s, n) :
        Constructed([i \in 1..n |-> PacFile(i, Dealt(s, a, i, 1), 0)], NoImport)

\* archives whose last TOC region is cut short
InitCorrupt ==
    \E n \in 1..MaxSources : \E s \in FolderSeqs : \E a \in Deals(s, n) :
    \E cut \in 1..MaxCut :
        /\ Len(EncodeToc(Dealt(s, a, n, 1))) >= cut
        /\ Constructed([i \in 1..n |->
                           PacFile(i, Dealt(s, a, i, 1), IF i = n THEN cut ELSE 0)],
                       NoImport)

\* ----------------------------------------------------------------- actions

DoSearch(path) ==
    /\ calls < MaxCalls
    /\ LET o == Search(Self, bufpos, datapos, path)
       IN  /\ bufpos' = o.pos
           /\ datapos' = o.dpos
           /\ result' = Result(o)
    /\ last' = [op |-> "Search", path |-> path]
    /\ calls' = calls + 1
    /\ UNCHANGED <<pacs, buffer, data, imp, disk, arc>>

DoExtractRootTOC ==
    /\ calls < MaxCalls
    /\ LET r == ExtractRootTOC(Self, datapos, disk)
       IN  /\ bufpos' = r.out.pos
           /\ datapos' = r.out.dpos
           /\ result' = Result(r.out)
           /\ disk' = r.disk
    /\ last' = [op |-> "ExtractRootTOC", path |-> <<>>]
    /\ calls' = calls + 1
    /\ UNCHANGED <<pacs, buffer, data, imp, arc>>

\* WriteArc: fh.write(self.buffer.getvalue())
DoWriteArc ==
    /\ calls < MaxCalls
    /\ arc' = buffer
    /\ result' = NoResult
    /\ last' = [op |-> "WriteArc", path |-> <<>>]
    /\ calls' = calls + 1
    /\ UNCHANGED <<pacs, buffer, bufpos, data, datapos, imp, disk>>

Next ==
    \/ \E path \in Paths : DoSearch(path)
    \/ DoExtractRootTOC
    \/ DoWriteArc

Spec == Init /\ [][Next]_vars

SpecCorrupt == InitCorrupt /\ [][Next]_vars

\* ------------------------------------------------- the Import object's runs

\* one well-formed PAC file, opened by PACIO and by Import
InitImport ==
    \E s \in FolderSeqs :
        LET pac == PacFile(1, [j \in 1..Len(s) |-> Catalogue[s[j]]], 0)
        IN  Constructed(<<pac>>, Import(pac))

\* the TOC fragments write_arc is given: none, or one folder table
ExtraTocs == {<<>>} \cup {<<EncodeFolder(Catalogue[k])>> : k \in 1..Len(Catalogue)}

DoGetFile(path) ==
    /\ calls < MaxCalls
    /\ LET o == get_file(imp, path)
       IN  /\ imp' = [imp EXCEPT !.tocpos = o.pos, !.datapos = o.dpos]
           /\ result' = Result(o)
    /\ last' = [op |-> "get_file", path |-> path]
    /\ calls' = calls + 1
    /\ UNCHANGED <<pacs, buffer, bufpos, data, datapos, disk, arc>>

DoWriteArcImport(additional_tocs) ==
    /\ calls < MaxCalls
    /\ arc' = write_arc(imp, additional_tocs)
    /\ result' = NoResult
    /\ last' = [op |-> "write_arc", path |-> <<>>]
    /\ calls' = calls + 1
    /\ UNCHANGED <<pacs, buffer, bufpos, data, datapos, imp, disk>>

NextImport ==
    \/ \E path \in Paths : DoGetFile(path)
    \/ \E additional_tocs \in ExtraTocs : DoWriteArcImport(additional_tocs)

SpecImport == InitImport /\ [][NextImport]_vars

\* ------------------------------------------- folder headers of every value

SKIP == <<83, 75, 73, 80>>
ZZZZ == <<90, 90, 90, 90>>

\* the entry table a folder header (filecount, flag) announces, in bytes
AnnouncedTable(filecount, flag) ==
    IF flag = 128 THEN (filecount \div 3) * 4
    ELSE (((filecount + 256 * flag) % 4096) \div 2) * 8

\* one source whose TOC is the folder SKIP with the header (filecount, flag),
\* followed by the table it announces when that is at most MaxTable bytes
\* (every byte 65, "A") and by no table at all otherwise
InitSkip ==
    \E filecount \in 0..255 : \E flag \in 0..255 :
        LET size == AnnouncedTable(filecount, flag)
            toc  == SKIP \o <<filecount, flag, 0, 0>>
                    \o (IF size <= MaxTable THEN Fill(65, size) ELSE <<>>)
        IN  Constructed(<<[id |-> 1, folders |-> <<>>, cut |-> 0, toc |-> toc,
                          datalen |-> DataLen]>>, NoImport)

\* one call on the new object: a Search that skips the folder, a Search that
\* decodes it to its end, or a bulk extraction
NextSkip ==
    \/ calls = 0 /\ DoSearch(Path(NONE, GAME))
    \/ calls = 0 /\ DoSearch(Path(SKIP, ZZZZ))
    \/ calls = 0 /\ DoExtractRootTOC

SpecSkip == InitSkip /\ [][NextSkip]_vars

\* ------------------------------------------------------ terms of the claims

\* the two components of "/FOLDER/FILE", each padded with spaces to 4 characters
PathFolder(path) == LJust(SplitOnce(StripSlash(path))[1], 4)

PathFile(path) == LJust(SplitOnce(StripSlash(path))[2], 4)

\* <<i, j>>: folder record j of source i, in the order a scan meets them
Places == UNION { {<<i, j>> : j \in 1..Len(pacs[i].folders)} : i \in 1..Len(pacs) }

FolderAt(p) == pacs[p[1]].folders[p[2]]

Earlier(p, q) == p[1] < q[1] \/ (p[1] = q[1] /\ p[2] < q[2])

\* p is the first folder record named F
FirstNamed(p, F) ==
    /\ FolderAt(p).name = F
    /\ \A q \in Places : Earlier(q, p) => FolderAt(q).name # F

\* the 4-digit zero-padded decimal name of an extended entry
PaddedName(id) == RJustZero(Str(id), 4)

\* c_1 = B * 2048, c_(k+1) = c_k + s_k rounded up to the next multiple of 2048
RECURSIVE SequentialCursor(_, _)
SequentialCursor(f, k) ==
    IF k = 1 THEN f.base * 2048
    ELSE LET c == SequentialCursor(f, k - 1) + f.entries[k - 1].size
         IN  ((c + 2047) \div 2048) * 2048

\* the result that is the bytes [lo, hi) of source i's data region
IsSlice(r, i, lo, hi) ==
    r.kind = "bytes" /\ r.src = pacs[i].id /\ r.lo = lo /\ r.hi = hi

SameResult(r, o) ==
    r.kind = o.kind /\ r.src = o.src /\ r.lo = o.lo /\ r.hi = o.hi

\* ------------------------------------------------------------------ claims

\* C1: Search of a normal entry named N of folder F, whose range lies inside
\* the data region, returns the bytes [sectorOffset * 2048, sectorOffset * 2048
\* + size) of the data buffer of F's source, whatever else the folder holds and
\* wherever earlier calls left the data cursors.
C1_NormalAddressing ==
    last.op = "Search" =>
        \A p \in Places :
            (FirstNamed(p, PathFolder(last.path)) /\ ~FolderAt(p).ext) =>
                \A k \in 1..Len(FolderAt(p).entries) :
                    LET e == FolderAt(p).entries[k]
                    IN  ( /\ e.name = PathFile(last.path)
                          /\ \A h \in 1..(k - 1) : FolderAt(p).entries[h].name # e.name
                          /\ e.addr * 2048 + e.size <= pacs[p[1]].datalen )
                        => IsSlice(result, p[1], e.addr * 2048, e.addr * 2048 + e.size)

\* a normal entry found at sector 1 after a bulk extraction moved the cursors
C1_Witness ==
    /\ last.op = "Search"
    /\ last.path = Path(MOT, GAME)
    /\ disk # {}
    /\ result.kind = "bytes" /\ result.lo = 2048 /\ result.hi = 2148

\* C2: when Search matches the K-th entry of an extended folder with base B,
\* it returns the s_K bytes at c_K of the active data buffer, c_1 = B * 2048,
\* whatever the data cursor was before the call.
C2_ExtendedAddressing ==
    last.op = "Search" =>
        \A p \in Places :
            (FirstNamed(p, PathFolder(last.path)) /\ FolderAt(p).ext) =>
                \A k \in 1..Len(FolderAt(p).entries) :
                    LET f == FolderAt(p)
                        c == SequentialCursor(f, k)
                    IN  ( /\ SearchEntryName(f.entries[k].id) = PathFile(last.path)
                          /\ \A h \in 1..(k - 1) :
                                SearchEntryName(f.entries[h].id) # PathFile(last.path)
                          /\ c + f.entries[k].size <= pacs[p[1]].datalen )
                        => IsSlice(result, p[1], c, c + f.entries[k].size)

\* C3: Search with the file component equal to the 4-digit zero-padded id of an
\* entry of an extended folder matches that entry and returns exactly its size
\* in bytes, never not-found.
C3_ExtendedNames ==
    last.op = "Search" =>
        \A p \in Places :
            (FirstNamed(p, PathFolder(last.path)) /\ FolderAt(p).ext) =>
                \A k \in 1..Len(FolderAt(p).entries) :
                    LET e == FolderAt(p).entries[k]
                    IN  ( /\ e.id \in 0..9999
                          /\ PaddedName(e.id) = PathFile(last.path)
                          /\ \A h \in 1..(k - 1) : FolderAt(p).entries[h].id # e.id )
                        => result.kind = "bytes" /\ result.hi - result.lo = e.size

\* C4: Search(p) after any earlier calls returns what Search(p) returns on the
\* object as constructed.
C4_StatelessFind ==
    last.op = "Search" =>
        SameResult(result, Search(Self, 0, FreshCursors(Self), last.path))

\* C5: on a merged TOC cut short, a Search whose scan gets to the truncated
\* folder (the folder searched is none of the complete ones before it) fails
\* with EOFError; it returns neither None nor bytes.
C5_TruncatedIsError ==
    ( /\ last.op = "Search"
      /\ \A p \in Places :
            FolderAt(p).name = PathFolder(last.path)
            => p = <<Len(pacs), Len(pacs[Len(pacs)].folders)>> )
    => result.kind = "EOFError"

\* no folder record is named F
FolderAbsent(F) == \A p \in Places : FolderAt(p).name # F

\* the first folder named F holds no entry named N; an extended entry is named
\* by its id, zero-padded to 4 digits or padded with spaces
FileAbsent(F, N) ==
    \E p \in Places :
        /\ FirstNamed(p, F)
        /\ \A k \in 1..Len(FolderAt(p).entries) :
              LET e == FolderAt(p).entries[k]
              IN  IF FolderAt(p).ext
                  THEN PaddedName(e.id) # N /\ LJust(Str(e.id), 4) # N
                  ELSE e.name # N

InBoth(F) ==
    /\ \E j \in 1..Len(pacs[1].folders) : pacs[1].folders[j].name = F
    /\ \E j \in 1..Len(pacs[2].folders) : pacs[2].folders[j].name = F

C8_WriterRoundTrip ==
    last.op \in {"WriteArc", "write_arc"} =>
        /\ Len(arc) >= 4
        /\ SubSeq(arc, Len(arc) - 3, Len(arc)) = <<255, 255, 255, 255>>
        /\ Len(arc) > 4 => arc[1] = 255 /\ arc[3] = 255 /\ arc[4] = 255
        /\ \A path \in Paths :
              LET before == Search(Self, 0, FreshCursors(Self), path)
                  reload == [buffer |-> arc, data |-> data]
              IN  before.kind = "bytes"
                  => SameResult(before, Search(reload, 0, FreshCursors(reload), path))

\* marker(i-1) + toc_(i-1) + ... + the terminator
RECURSIVE MergedFrom(_)
MergedFrom(i) ==
    IF i > Len(pacs) THEN <<255, 255, 255, 255>>
    ELSE <<255, i - 1, 255, 255>> \o pacs[i].toc \o MergedFrom(i + 1)

\* <<source index, folder name>> of every folder record, in source order
RECURSIVE FoldersFrom(_, _)
FoldersFrom(i, j) ==
    IF i > Len(pacs) THEN <<>>
    ELSE IF j > Len(pacs[i].folders) THEN FoldersFrom(i + 1, 1)
    ELSE <<<<i - 1, pacs[i].folders[j].name>>>> \o FoldersFrom(i, j + 1)

SkipCount ==
    IF buffer[10] = 128 THEN buffer[9] \div 3
    ELSE ((buffer[9] + 256 * buffer[10]) % 4096) \div 2

SkipWidth == IF buffer[10] = 128 THEN 4 ELSE 8

\* marker, folder name, header, table
AfterTable == 4 + 8 + SkipCount * SkipWidth

TableWritten == Len(buffer) = AfterTable + 4

\* C10: for every folder header (fileCountField, flag) in 0..255 x 0..255 of a
\* folder that is not the one searched, the TOC cursor before the next
\* folder-name read is the offset after the 8-byte folder record plus
\* entryCount * entryWidth; decoding the folder in full (the matching-folder
\* path, bulk extraction) consumes the same bytes.
C10_ExactSkip ==
    /\ (last.op = "Search" /\ last.path = Path(NONE, GAME)) =>
          \* the next read is the one that returns the terminator, or nothing
          \/ result.kind = "None" /\ bufpos = AfterTable + 4 /\ TableWritten
          \/ result.kind = "EOFError" /\ bufpos = AfterTable /\ ~TableWritten
    /\ (last.op = "Search" /\ last.path = Path(SKIP, ZZZZ) /\ TableWritten) =>
          result.kind = "None" /\ bufpos = AfterTable
    /\ (last.op = "ExtractRootTOC" /\ TableWritten) =>
          result.kind = "None" /\ bufpos = AfterTable + 4

\* a normal folder of 5 words (2 entries) and an extended one of 6 words (2
\* entries), skipped
C10_Witness ==
    /\ last.op = "Search" /\ last.path = Path(NONE, GAME)
    /\ \/ buffer[9] = 5 /\ buffer[10] = 0 /\ bufpos = 32
       \/ buffer[9] = 6 /\ buffer[10] = 128 /\ bufpos = 24
    /\ result.kind = "None"

====
